---- MODULE Spec2Model ----
(***************************************************************************)
(* Model of src/pe/section_table.rs: the PE/COFF section header decoder    *)
(* SectionTable::parse, the accessor SectionTable::name and the index      *)
(* decoder base64_decode_string_entry.                                     *)
(*                                                                         *)
(* Bytes are naturals 0..255, byte buffers and strings are sequences of    *)
(* bytes (a &str is the sequence of its UTF-8 bytes).  A usize is a        *)
(* little-endian sequence of 16-bit limbs, two limbs on a 32-bit target    *)
(* and four on a 64-bit target, so that arithmetic keeps its width.        *)
(***************************************************************************)
EXTENDS Integers, Sequences, FiniteSets, TLC

VARIABLES
    bytes,                \* the immutable input buffer (&[u8])
    offset,               \* the caller's cursor (&mut usize), below 2^16 here
    string_table_offset,  \* usize argument of parse, as limbs
    usizeBits,            \* width of usize on the target: 32 or 64
    overflowChecks,       \* TRUE: overflow panics (debug); FALSE: it wraps
    result,               \* outcome of the last call of parse
    entryOffset,          \* the cursor at entry to the last call of parse
    startOffset,          \* the cursor before the first call of parse
    okCalls,              \* successful parse calls so far
    calls,                \* parse calls so far
    nameResult,           \* outcome of the last call of name
    b64in,                \* argument of a direct call of the index decoder
    b64out                \* outcome of that call

vars == <<bytes, offset, string_table_offset, usizeBits, overflowChecks,
          result, entryOffset, startOffset, okCalls, calls, nameResult,
          b64in, b64out>>

(***************************************************************************)
(* Bounds of the model.                                                    *)
(***************************************************************************)
MaxBody == 2       \* characters of a raw name after its marker prefix
MaxRecords == 2    \* section records in the buffer
MaxCalls == 3      \* calls of parse on one cursor

(***************************************************************************)
(* Program constants.                                                      *)
(***************************************************************************)
SIZEOF_SECTION_TABLE == 8 * 5
NameSize == 8
MaxB64Len == 6
LimbBase == 2 ^ 16

NUL == 0
Slash == 47
Plus == 43

None == <<>>
Some(x) == <<x>>

(***************************************************************************)
(* usize arithmetic on limbs.                                              *)
(***************************************************************************)
NLimbs(bits) == bits \div 16

Zero(bits) == [i \in 1..NLimbs(bits) |-> 0]

\* A small natural as a usize.
FromSmall(n, bits) == [i \in 1..NLimbs(bits) |-> IF i = 1 THEN n % LimbBase
                                                 ELSE IF i = 2 THEN n \div LimbBase
                                                 ELSE 0]

\* x * m + a, with the carry out of the top limb.
RECURSIVE MulAddFrom(_, _, _, _)
MulAddFrom(x, m, c, i) ==
    IF i > Len(x) THEN [val |-> <<>>, carry |-> c]
    ELSE LET t == x[i] * m + c
             r == MulAddFrom(x, m, t \div LimbBase, i + 1)
         IN [val |-> <<t % LimbBase>> \o r.val, carry |-> r.carry]

MulAdd(x, m, a) == MulAddFrom(x, m, a, 1)

\* x + y, with the carry out of the top limb.
RECURSIVE AddFrom(_, _, _, _)
AddFrom(x, y, c, i) ==
    IF i > Len(x) THEN [val |-> <<>>, carry |-> c]
    ELSE LET t == x[i] + y[i] + c
             r == AddFrom(x, y, t \div LimbBase, i + 1)
         IN [val |-> <<t % LimbBase>> \o r.val, carry |-> r.carry]

Add(x, y) == AddFrom(x, y, 0, 1)

\* The usize as an offset into a buffer shorter than 2^16 bytes: its value
\* when it is below 2^16, and 2^16 (beyond every buffer) otherwise.
AsOffset(x) == IF \A i \in 2..Len(x) : x[i] = 0 THEN x[1] ELSE LimbBase

\* Zero-extension of a usize to four limbs, to compare across widths.
Widen(x) == [i \in 1..4 |-> IF i <= Len(x) THEN x[i] ELSE 0]

(***************************************************************************)
(* Byte strings.                                                           *)
(***************************************************************************)
IsCont(b) == 128 <= b /\ b <= 191

\* core::str::from_utf8 accepts exactly the well-formed UTF-8 sequences.
RECURSIVE Utf8ValidFrom(_, _)
Utf8ValidFrom(s, i) ==
    LET n == Len(s)
        c(k) == i + k <= n /\ IsCont(s[i + k])
        in(k, lo, hi) == i + k <= n /\ lo <= s[i + k] /\ s[i + k] <= hi
    IN IF i > n THEN TRUE
       ELSE IF s[i] < 128 THEN Utf8ValidFrom(s, i + 1)
       ELSE IF 194 <= s[i] /\ s[i] <= 223 THEN c(1) /\ Utf8ValidFrom(s, i + 2)
       ELSE IF s[i] = 224 THEN in(1, 160, 191) /\ c(2) /\ Utf8ValidFrom(s, i + 3)
       ELSE IF s[i] = 237 THEN in(1, 128, 159) /\ c(2) /\ Utf8ValidFrom(s, i + 3)
       ELSE IF 225 <= s[i] /\ s[i] <= 239 THEN c(1) /\ c(2) /\ Utf8ValidFrom(s, i + 3)
       ELSE IF s[i] = 240 THEN in(1, 144, 191) /\ c(2) /\ c(3) /\ Utf8ValidFrom(s, i + 4)
       ELSE IF 241 <= s[i] /\ s[i] <= 243 THEN c(1) /\ c(2) /\ c(3) /\ Utf8ValidFrom(s, i + 4)
       ELSE IF s[i] = 244 THEN in(1, 128, 143) /\ c(2) /\ c(3) /\ Utf8ValidFrom(s, i + 4)
       ELSE FALSE

Utf8Valid(s) == Utf8ValidFrom(s, 1)

\* src.iter().take_while(|c| **c != NUL).count(): the bytes before the first
\* NUL, or all of them when there is none.
RECURSIVE TakeWhileNotNul(_, _)
TakeWhileNotNul(src, i) ==
    IF i > Len(src) \/ src[i] = NUL THEN 0
    ELSE 1 + TakeWhileNotNul(src, i + 1)

\* buf.pread::<&str>(o) of scroll, for a zero-based offset o: a bad offset at
\* or beyond the end, else the bytes up to the first NUL or to the end of the
\* buffer, which must be UTF-8.
PreadStr(src, o) ==
    IF o >= Len(src) THEN [ok |-> FALSE, err |-> "BadOffset", str |-> <<>>]
    ELSE LET rest == SubSeq(src, o + 1, Len(src))
             s == SubSeq(rest, 1, TakeWhileNotNul(rest, 1))
         IN IF Utf8Valid(s) THEN [ok |-> TRUE, err |-> "", str |-> s]
            ELSE [ok |-> FALSE, err |-> "BadInput", str |-> <<>>]

\* The little-endian integer of a byte string, as limbs of 16 bits.
LittleEndian(bs) ==
    [i \in 1..((Len(bs) + 1) \div 2) |->
        bs[2 * i - 1] + (IF 2 * i <= Len(bs) THEN 256 * bs[2 * i] ELSE 0)]

\* buf.gread_with(offset, LE) of scroll for an integer of the given size: the
\* cursor moves by size only when the read succeeds.
Gread(src, o, size) ==
    IF o >= Len(src) THEN [ok |-> FALSE, err |-> "BadOffset", val |-> <<>>, offset |-> o]
    ELSE IF size > Len(src) - o
         THEN [ok |-> FALSE, err |-> "TooBig", val |-> <<>>, offset |-> o]
    ELSE [ok |-> TRUE, err |-> "", val |-> LittleEndian(SubSeq(src, o + 1, o + size)),
          offset |-> o + size]

(***************************************************************************)
(* base64_decode_string_entry                                              *)
(***************************************************************************)
\* The digit of a byte in the alphabet A-Z a-z 0-9 + /, or -1.
B64DigitUrlSafe(c) ==
    IF 65 <= c /\ c <= 90 THEN c - 65 + 0
    ELSE IF 97 <= c /\ c <= 122 THEN c - 97 + 26
    ELSE IF 48 <= c /\ c <= 57 THEN c - 48 + 52
    ELSE IF c = Plus \/ c = 45 THEN 62
    ELSE IF c = Slash THEN 63
    ELSE -1

B64Digit(c) ==
    IF 65 <= c /\ c <= 90 THEN c - 65 + 0
    ELSE IF 97 <= c /\ c <= 122 THEN c - 97 + 26
    ELSE IF 48 <= c /\ c <= 57 THEN c - 48 + 52
    ELSE IF c = Plus THEN 62
    ELSE IF c = Slash THEN 63
    ELSE -1

RECURSIVE B64Loop(_, _, _, _)
B64Loop(s, i, val, checks) ==
    IF i > Len(s) THEN [status |-> "Ok", val |-> val]
    ELSE LET v == B64Digit(s[i])
         IN IF v < 0 THEN [status |-> "Err", val |-> val]
            ELSE LET r == MulAdd(val, 64, v)
                 IN IF r.carry # 0 /\ checks
                    THEN [status |-> "Overflow", val |-> val]
                    ELSE B64Loop(s, i + 1, r.val, checks)

\* status: Ok, Err, Assert (the length assertion failed) or Overflow (the
\* arithmetic overflowed with overflow checks on).
base64_decode_string_entry(s, bits, checks) ==
    IF ~(Len(s) <= MaxB64Len) THEN [status |-> "Assert", val |-> Zero(bits)]
    ELSE B64Loop(s, 1, Zero(bits), checks)

(***************************************************************************)
(* str::parse::<usize>, as called on the decimal index text.               *)
(***************************************************************************)
RECURSIVE DecLoop(_, _, _)
DecLoop(s, i, val) ==
    IF i > Len(s) THEN [ok |-> TRUE, err |-> "", val |-> val]
    ELSE IF ~(48 <= s[i] /\ s[i] <= 57)
         THEN [ok |-> FALSE, err |-> "InvalidDigit", val |-> val]
    ELSE LET r == MulAdd(val, 10, s[i] - 48)
         IN IF r.carry # 0 THEN [ok |-> FALSE, err |-> "Overflow", val |-> val]
            ELSE DecLoop(s, i + 1, r.val)

\* An optional '+' sign, then one or more decimal digits, checked arithmetic.
ParseUsize(s, bits) ==
    IF Len(s) = 0 THEN [ok |-> FALSE, err |-> "Empty", val |-> Zero(bits)]
    ELSE LET digits == IF s[1] = Plus THEN Tail(s) ELSE s
         IN IF Len(digits) = 0 THEN [ok |-> FALSE, err |-> "Empty", val |-> Zero(bits)]
            ELSE DecLoop(digits, 1, Zero(bits))

(***************************************************************************)
(* SectionTable                                                            *)
(***************************************************************************)
\* The sizes of the reads of parse, in order: the eight name bytes, then
\* virtual_size, virtual_address, size_of_raw_data, pointer_to_raw_data,
\* pointer_to_relocations, pointer_to_linenumbers, number_of_relocations,
\* number_of_linenumbers, characteristics.
FieldSizesShort == <<1, 1, 1, 1, 1, 1, 1, 1, 4, 4, 4, 4, 4, 4, 2, 2, 2>>

FieldSizes == <<1, 1, 1, 1, 1, 1, 1, 1, 4, 4, 4, 4, 4, 4, 2, 2, 4>>

\* SectionTable::default()
DefaultTable ==
    [name |-> [i \in 1..NameSize |-> 0], real_name |-> None,
     virtual_size |-> <<0, 0>>, virtual_address |-> <<0, 0>>,
     size_of_raw_data |-> <<0, 0>>, pointer_to_raw_data |-> <<0, 0>>,
     pointer_to_relocations |-> <<0, 0>>, pointer_to_linenumbers |-> <<0, 0>>,
     number_of_relocations |-> <<0>>, number_of_linenumbers |-> <<0>>,
     characteristics |-> <<0, 0>>]

\* The reads of parse from FieldSizes[i] on: each `?` returns at the first
\* failed read, with the cursor where the reads before it left it.
RECURSIVE GreadAll(_, _, _, _)
GreadAll(src, o, i, vals) ==
    IF i > Len(FieldSizes) THEN [ok |-> TRUE, err |-> "", vals |-> vals, offset |-> o]
    ELSE LET g == Gread(src, o, FieldSizes[i])
         IN IF ~g.ok THEN [ok |-> FALSE, err |-> g.err, vals |-> vals, offset |-> g.offset]
            ELSE GreadAll(src, g.offset, i + 1, Append(vals, g.val))

Outcome(status, kind, detail, msg, table, o, b64arg, idx) ==
    [status |-> status, kind |-> kind, detail |-> detail, msg |-> msg,
     table |-> table, offset |-> o, b64arg |-> b64arg, idx |-> idx]

\* if name[0] == b'/'
IsIndirectSecondByte(raw) == raw[2] = Slash

IsIndirect(raw) == raw[1] = Slash

\* The offset in the raw name of the base64 index text, after "//".
B64TextOffsetOne == 2 - 1

B64TextOffset == 2

\* The offset in the raw name of the decimal index text, after "/".
DecTextOffset == 1

\* string_table_offset + idx, with the carry out of the usize.
StringOffsetFromStart(sto, idx) == Add(Zero(Len(sto) * 16), idx)

StringOffset(sto, idx) == Add(sto, idx)

\* The index of an indirect name (name[0] == '/'): status Ok with idx, Err
\* with kind Scroll or Malformed, or Panic.  msg is the text the Malformed
\* message quotes; b64arg is the argument handed to the base64 decoder.
IndexOf(name, bits, checks) ==
    IF name[2] = Slash
    THEN LET p == PreadStr(name, B64TextOffset)
         IN IF ~p.ok
            THEN [status |-> "Err", kind |-> "Scroll", detail |-> p.err,
                  msg |-> <<>>, b64arg |-> None, idx |-> None]
            ELSE LET d == base64_decode_string_entry(p.str, bits, checks)
                 IN IF d.status \in {"Assert", "Overflow"}
                    THEN [status |-> "Panic", kind |-> d.status, detail |-> "",
                          msg |-> <<>>, b64arg |-> Some(p.str), idx |-> None]
                    ELSE IF d.status = "Err"
                    THEN [status |-> "Err", kind |-> "Malformed",
                          detail |-> "base64 decoding failed",
                          msg |-> <<Slash, Slash>> \o p.str,
                          b64arg |-> Some(p.str), idx |-> None]
                    ELSE [status |-> "Ok", kind |-> "", detail |-> "", msg |-> <<>>,
                          b64arg |-> Some(p.str), idx |-> Some(d.val)]
    ELSE LET p == PreadStr(name, DecTextOffset)
         IN IF ~p.ok
            THEN [status |-> "Err", kind |-> "Scroll", detail |-> p.err,
                  msg |-> <<>>, b64arg |-> None, idx |-> None]
            ELSE LET d == ParseUsize(p.str, bits)
                 IN IF ~d.ok
                    THEN [status |-> "Err", kind |-> "Malformed", detail |-> d.err,
                          msg |-> <<Slash>> \o p.str, b64arg |-> None, idx |-> None]
                    ELSE [status |-> "Ok", kind |-> "", detail |-> "", msg |-> <<>>,
                          b64arg |-> None, idx |-> Some(d.val)]

\* SectionTable::parse(bytes, &mut offset, string_table_offset); the field
\* offset of the outcome is the cursor the call leaves behind.
parse(src, o, sto, bits, checks) ==
    LET g == GreadAll(src, o, 1, <<>>)
    IN IF ~g.ok
       THEN Outcome("Err", "Scroll", g.err, <<>>, DefaultTable, g.offset, None, None)
       ELSE
       LET name == [i \in 1..NameSize |-> g.vals[i][1]]
           table == [name |-> name, real_name |-> None,
                     virtual_size |-> g.vals[9], virtual_address |-> g.vals[10],
                     size_of_raw_data |-> g.vals[11], pointer_to_raw_data |-> g.vals[12],
                     pointer_to_relocations |-> g.vals[13],
                     pointer_to_linenumbers |-> g.vals[14],
                     number_of_relocations |-> g.vals[15],
                     number_of_linenumbers |-> g.vals[16],
                     characteristics |-> g.vals[17]]
       IN IF IsIndirect(name)
          THEN LET x == IndexOf(name, bits, checks)
               IN IF x.status # "Ok"
                  THEN Outcome(x.status, x.kind, x.detail, x.msg, table, g.offset,
                               x.b64arg, x.idx)
                  ELSE
                  LET sum == StringOffset(sto, x.idx[1])
                  IN IF sum.carry # 0 /\ checks
                     THEN Outcome("Panic", "Overflow", "", <<>>, table, g.offset,
                                  x.b64arg, x.idx)
                     ELSE
                     LET q == PreadStr(src, AsOffset(sum.val))
                     IN IF ~q.ok
                        THEN Outcome("Err", "Scroll", q.err, <<>>, table, g.offset,
                                     x.b64arg, x.idx)
                        ELSE Outcome("Ok", "", "", <<>>,
                                     [table EXCEPT !.real_name = Some(q.str)],
                                     g.offset, x.b64arg, x.idx)
          ELSE Outcome("Ok", "", "", <<>>, table, g.offset, None, None)

\* SectionTable::name(&self)
nameRawOnly(table) == PreadStr(table.name, 0)

name(table) ==
    IF table.real_name # None
    THEN [ok |-> TRUE, err |-> "", str |-> table.real_name[1]]
    ELSE PreadStr(table.name, 0)

(***************************************************************************)
(* Inputs: buffers of MaxRecords section records followed by a string      *)
(* table, the cursor, the string table offset and the build.               *)
(***************************************************************************)
\* Bytes a raw name is built from: NUL, '/', '4', 'E' and '-'.
BodyAlphabet == {NUL, Slash, 52, 69, 45}

\* Bytes that fill a raw name up to its eight bytes: NUL or 'A'.
Fills == {NUL, 65}

Bodies == UNION {[1..k -> BodyAlphabet] : k \in 0..MaxBody}

Prefixes == {<<>>, <<Slash>>, <<Slash, Slash>>}

\* ".text", ".textbss", "/1234567", "//zAAAAA" and "//zAAAA-"; names with
\* a '+': "/+4", "/+", "/4+", "//+"; and names with bytes above 0x7F: the
\* UTF-8 text "e-acute", and 0xFF, which no UTF-8 text contains, in a direct
\* name, in a decimal index and in a base64 index.
SpecialNames ==
    {<<46, 116, 101, 120, 116, NUL, NUL, NUL>>,
     <<46, 116, 101, 120, 116, 98, 115, 115>>,
     <<Slash, 49, 50, 51, 52, 53, 54, 55>>,
     <<Slash, Slash, 122, 65, 65, 65, 65, 65>>,
     <<Slash, Slash, 122, 65, 65, 65, 65, 45>>,
     <<Slash, Plus, 52, NUL, NUL, NUL, NUL, NUL>>,
     <<Slash, Plus, NUL, NUL, NUL, NUL, NUL, NUL>>,
     <<Slash, 52, Plus, NUL, NUL, NUL, NUL, NUL>>,
     <<Slash, Slash, Plus, NUL, NUL, NUL, NUL, NUL>>,
     <<195, 169, NUL, NUL, NUL, NUL, NUL, NUL>>,
     <<46, 255, NUL, NUL, NUL, NUL, NUL, NUL>>,
     <<Slash, 52, 255, NUL, NUL, NUL, NUL, NUL>>,
     <<Slash, Slash, 69, 255, NUL, NUL, NUL, NUL>>}

RawNames ==
    {[i \in 1..NameSize |-> IF i <= Len(p \o b) THEN (p \o b)[i] ELSE f] :
        p \in Prefixes, b \in Bodies, f \in Fills}
    \cup SpecialNames

\* The 32 bytes of the fixed fields after the name.
FixedFields == [i \in 1..(SIZEOF_SECTION_TABLE - NameSize) |-> (7 * i) % 256]

Record(nm) == nm \o FixedFields

RECURSIVE Records(_, _)
Records(nm, n) == IF n = 0 THEN <<>> ELSE Record(nm) \o Records(nm, n - 1)

\* "section_name"
SectionName == <<115, 101, 99, 116, 105, 111, 110, 95, 110, 97, 109, 101>>

\* String tables: a four-byte size, then "section_name" at offset 4,
\* terminated and followed by another string; the same without terminator at
\* the end of the buffer; one whose string is not UTF-8; and none at all.
StringTables ==
    {<<19, 0, 0, 0>> \o SectionName \o <<NUL, 120, NUL>>,
     <<16, 0, 0, 0>> \o SectionName,
     <<7, 0, 0, 0>> \o <<115, 255, NUL>>,
     <<>>}

\* The largest usize.
MaxUsize(bits) == [i \in 1..NLimbs(bits) |-> LimbBase - 1]

\* String table offsets: the start of the string table, the start of the
\* buffer, and the largest usize.
StringTableOffsets(n, bits) ==
    {FromSmall(SIZEOF_SECTION_TABLE * n, bits), Zero(bits), MaxUsize(bits)}

CursorStarts == {0, 1}

\* Arguments of a direct call of the decoder: the strings of at most six
\* characters over A B z 9 + /, two with a byte outside the alphabet and one
\* of seven characters.
B64Sample == {65, 66, 122, 57, Plus, Slash}

B64Inputs ==
    UNION {[1..k -> B64Sample] : k \in 0..MaxB64Len}
    \cup {<<45>>, <<65, 45, 65>>, <<65, 65, 65, 65, 65, 65, 65>>}

NoOutcome == Outcome("None", "", "", <<>>, DefaultTable, 0, None, None)
NoName == [ok |-> FALSE, err |-> "None", str |-> <<>>]
NoDecode == [status |-> "None", val |-> <<>>]

InitBuild ==
    /\ usizeBits \in {32, 64}
    /\ overflowChecks \in BOOLEAN

Init ==
    /\ InitBuild
    /\ \E nm \in RawNames, st \in StringTables :
          /\ bytes = Records(nm, MaxRecords) \o st
          /\ string_table_offset \in StringTableOffsets(MaxRecords, usizeBits)
    /\ startOffset \in CursorStarts
    /\ offset = startOffset
    /\ entryOffset = startOffset
    /\ result = NoOutcome
    /\ okCalls = 0
    /\ calls = 0
    /\ nameResult = NoName
    /\ b64in = <<>>
    /\ b64out = NoDecode

\* A call of SectionTable::parse on the shared cursor.  A panic ends the
\* program.
Parse ==
    /\ result.status # "Panic"
    /\ calls < MaxCalls
    /\ LET r == parse(bytes, offset, string_table_offset, usizeBits, overflowChecks)
       IN /\ result' = r
          /\ offset' = r.offset
          /\ okCalls' = IF r.status = "Ok" THEN okCalls + 1 ELSE okCalls
    /\ entryOffset' = offset
    /\ calls' = calls + 1
    /\ nameResult' = NoName
    /\ UNCHANGED <<bytes, string_table_offset, usizeBits, overflowChecks,
                   startOffset, b64in, b64out>>

\* A call of name on the entry the last parse returned.
Name ==
    /\ result.status = "Ok"
    /\ nameResult = NoName
    /\ nameResult' = name(result.table)
    /\ UNCHANGED <<bytes, offset, string_table_offset, usizeBits, overflowChecks,
                   result, entryOffset, startOffset, okCalls, calls, b64in, b64out>>

Next == Parse \/ Name

Spec == Init /\ [][Next]_vars

(***************************************************************************)
(* The decoder on its own.                                                 *)
(***************************************************************************)
InitB64 ==
    /\ InitBuild
    /\ b64in \in B64Inputs
    /\ b64out = NoDecode
    /\ bytes = <<>>
    /\ string_table_offset = Zero(usizeBits)
    /\ startOffset = 0
    /\ offset = 0
    /\ entryOffset = 0
    /\ result = NoOutcome
    /\ okCalls = 0
    /\ calls = 0
    /\ nameResult = NoName

\* A call of base64_decode_string_entry(b64in).
Decode ==
    /\ b64out = NoDecode
    /\ b64out' = base64_decode_string_entry(b64in, usizeBits, overflowChecks)
    /\ UNCHANGED <<bytes, offset, string_table_offset, usizeBits, overflowChecks,
                   result, entryOffset, startOffset, okCalls, calls, nameResult,
                   b64in>>

NextB64 == Decode

SpecB64 == InitB64 /\ [][NextB64]_vars

(***************************************************************************)
(* Vocabulary of the properties, stated on the inputs of the last call.    *)
(***************************************************************************)
\* parse has been called.
Acted == result.status # "None"

\* name has been called on the entry of the last parse.
NameActed == nameResult.err # "None"

\* At least 40 bytes lay between the cursor at entry and the buffer's end.
RecordAvailable == Len(bytes) - entryOffset >= 40

\* The eight bytes of the name field the last call read.
RawName == SubSeq(bytes, entryOffset + 1, entryOffset + 8)

\* The bytes of s from position k (one-based) up to, and excluding, the
\* first NUL at or after k, or up to the end of s when there is none.
TextFrom(s, k) ==
    LET stops == {i \in k..Len(s) : s[i] = NUL}
        end == IF stops = {} THEN Len(s)
               ELSE (CHOOSE i \in stops : \A j \in stops : i <= j) - 1
    IN SubSeq(s, k, end)

Terminated(s, k) == \E i \in k..Len(s) : s[i] = NUL

AllAscii(s) == \A i \in 1..Len(s) : s[i] < 128

IsDigits(s) == \A i \in 1..Len(s) : 48 <= s[i] /\ s[i] <= 57

RECURSIVE DecValueOf(_, _)
DecValueOf(s, n) == IF n = 0 THEN 0 ELSE DecValueOf(s, n - 1) * 10 + (s[n] - 48)

\* The number a string of at most nine decimal digits denotes.
DecValue(s) == DecValueOf(s, Len(s))

\* The 64-symbol alphabet in digit order: A-Z, a-z, 0-9, '+', '/'.
B64Alphabet ==
    [i \in 1..64 |-> IF i <= 26 THEN 64 + i
                     ELSE IF i <= 52 THEN 96 + (i - 26)
                     ELSE IF i <= 62 THEN 47 + (i - 52)
                     ELSE IF i = 63 THEN 43 ELSE 47]

InAlphabet(c) == \E i \in 1..64 : B64Alphabet[i] = c

AlphabetDigit(c) == (CHOOSE i \in 1..64 : B64Alphabet[i] = c) - 1

\* Bit k (from 0, least significant) of the positional base-64 value of s,
\* most significant character first: six bits a character.
ValueBit(s, k) ==
    LET pos == Len(s) - (k \div 6)
    IN IF pos < 1 THEN 0
       ELSE (AlphabetDigit(s[pos]) \div (2 ^ (k % 6))) % 2

\* The positional base-64 value of s as four 16-bit limbs.
PositionalValue(s) ==
    [j \in 1..4 |->
        LET f[b \in 0..16] ==
                IF b = 16 THEN 0
                ELSE ValueBit(s, 16 * (j - 1) + b) * (2 ^ b) + f[b + 1]
        IN f[0]]

\* string_table_offset as a number, when it is below 2^16.
StoSmall == AsOffset(string_table_offset) < LimbBase
Sto == AsOffset(string_table_offset)

\* The decimal index text: bytes 1..8 of the raw name up to the first NUL.
DecText == TextFrom(RawName, 2)

\* The base64 index text: bytes 2..8 of the raw name up to the first NUL.
B64Text == TextFrom(RawName, 3)

\* The index text of the raw name is well formed: decimal digits after "/",
\* or characters of the alphabet after "//".
IndexWellFormed ==
    /\ RawName[1] = Slash
    /\ IF RawName[2] = Slash
       THEN \A i \in 1..Len(B64Text) : InAlphabet(B64Text[i])
       ELSE DecText # <<>> /\ IsDigits(DecText)

DecimalForm == Acted /\ RecordAvailable /\ RawName[1] = Slash /\ RawName[2] # Slash
Base64Form == Acted /\ RecordAvailable /\ RawName[1] = Slash /\ RawName[2] = Slash

(***************************************************************************)
(* Properties.                                                             *)
(***************************************************************************)

\* C1: whenever parse returns Ok the cursor equals its value at entry plus
\* exactly 40, for direct and indirect names alike, and after k calls that
\* all succeeded on one cursor it is at start + 40 * k.
C1_CursorAdvancesBy40 ==
    /\ (Acted /\ result.status = "Ok") => offset = entryOffset + 40
    /\ (okCalls = calls) => offset = startOffset + 40 * calls

\* Two calls succeeded on one cursor, the second on an indirect name.
C1_Witness ==
    /\ okCalls = 2 /\ calls = 2
    /\ IndexWellFormed /\ result.table.real_name # None
    /\ offset = startOffset + 80

\* C2: for every entry a successful parse returns, real_name is Some if and
\* only if the first byte of the raw name is '/'.
C2_RealNameIffSlash ==
    (Acted /\ result.status = "Ok") =>
        /\ result.table.name = RawName
        /\ (result.table.real_name # None) <=> (RawName[1] = Slash)

\* A successful parse of a '/'-prefixed name, with real_name set.
C2_Witness ==
    /\ Acted /\ result.status = "Ok"
    /\ IndexWellFormed /\ result.table.real_name # None

\* C3: in decimal form, when the index text is the decimal digits of idx and
\* the buffer holds a NUL-terminated ASCII string at string_table_offset +
\* idx, parse succeeds and real_name is exactly the bytes from that offset up
\* to, and excluding, the next NUL.
C3_DecimalResolves ==
    (/\ DecimalForm
     /\ DecText # <<>> /\ IsDigits(DecText)
     /\ StoSmall
     /\ Sto + DecValue(DecText) < Len(bytes)
     /\ Terminated(bytes, Sto + DecValue(DecText) + 1)
     /\ AllAscii(TextFrom(bytes, Sto + DecValue(DecText) + 1)))
    => /\ result.status = "Ok"
       /\ result.table.real_name = Some(TextFrom(bytes, Sto + DecValue(DecText) + 1))

\* The raw name "/4" resolved to "section_name" at offset 4 of a string table
\* that does not start the buffer.
C3_Witness ==
    /\ DecimalForm /\ DecText = <<52>>
    /\ Sto >= 40 /\ StoSmall
    /\ result.status = "Ok"
    /\ result.table.real_name = Some(SectionName)

\* C4 (as claimed): for every string of at most 6 characters of the
\* alphabet the decoder returns Ok(v) with v the positional base-64 value,
\* most significant character first; "AAAAAB" yields 1, "BAAAAA" yields
\* 64^5 = 2^30, and the value never exceeds 64^6 - 1 = 2^36 - 1.
C4_Original ==
    (/\ b64out.status # "None"
     /\ Len(b64in) <= 6
     /\ \A i \in 1..Len(b64in) : InAlphabet(b64in[i]))
    => /\ b64out.status = "Ok"
       /\ Widen(b64out.val) = PositionalValue(b64in)
       /\ Widen(b64out.val)[3] < 16 /\ Widen(b64out.val)[4] = 0
       /\ (b64in = <<65, 65, 65, 65, 65, 66>> => Widen(b64out.val) = <<1, 0, 0, 0>>)
       /\ (b64in = <<66, 65, 65, 65, 65, 65>> => Widen(b64out.val) = <<0, 16384, 0, 0>>)

\* C5 (as claimed): in decimal form, if the index text contains a non-digit
\* character, or is empty, parse fails with Error::Malformed naming the text.
C5_Original ==
    (/\ DecimalForm
     /\ AllAscii(DecText)
     /\ (DecText = <<>> \/ ~IsDigits(DecText)))
    => /\ result.status = "Err"
       /\ result.kind = "Malformed"
       /\ result.msg = <<Slash>> \o DecText

C7_Original ==
    /\ (Acted /\ ~RecordAvailable) => result.status = "Err"
    /\ (/\ Acted /\ RecordAvailable /\ IndexWellFormed /\ result.idx # None
        /\ LET sum == Add(string_table_offset, result.idx[1])
           IN sum.carry # 0 \/ AsOffset(sum.val) >= Len(bytes))
       => result.status = "Err"

\* C8: name returns real_name when it is Some; otherwise the raw name up to
\* its first NUL, or all 8 bytes when it has none, failing only when those
\* bytes are not valid text; it never fails for an entry a successful parse
\* of a '/'-prefixed name produced.
C8_NameAccessor ==
    NameActed =>
        /\ result.table.real_name # None =>
              /\ nameResult.ok
              /\ nameResult.str = result.table.real_name[1]
        /\ result.table.real_name = None =>
              /\ nameResult.ok <=> Utf8Valid(TextFrom(result.table.name, 1))
              /\ nameResult.ok => nameResult.str = TextFrom(result.table.name, 1)
        /\ result.table.name[1] = Slash => nameResult.ok

\* name was called on an indirect entry and returned the resolved name,
\* which differs from the raw one.
C8_Witness ==
    /\ NameActed /\ nameResult.ok /\ IndexWellFormed
    /\ result.table.real_name = Some(SectionName)
    /\ nameResult.str = SectionName

\* C9 (as claimed): if the buffer from string_table_offset + idx to its end
\* holds no NUL, parse fails; it does not succeed with the unterminated
\* remainder of the buffer.
C9_Original ==
    (/\ Acted /\ RecordAvailable /\ IndexWellFormed /\ result.idx # None
     /\ LET sum == Add(string_table_offset, result.idx[1])
        IN /\ sum.carry = 0
           /\ AsOffset(sum.val) < Len(bytes)
           /\ ~Terminated(bytes, AsOffset(sum.val) + 1))
    => result.status = "Err"

\* C10: the assertion s.len() <= 6 never fails on a call reached through
\* parse: for every raw name starting with "//" the text handed to the
\* decoder has between 0 and 6 bytes.
C10_AssertionHolds ==
    Base64Form =>
        /\ result.kind # "Assert"
        /\ result.b64arg # None => Len(result.b64arg[1]) \in 0..6

\* The decoder was handed all six bytes after "//" of a name without NUL.
C10_Witness ==
    /\ Base64Form
    /\ result.b64arg # None /\ Len(result.b64arg[1]) = 6

====
